---- MODULE Spec2Model ----
(***************************************************************************)
(* BratwurstPower: the PCA9557 I/O-expander driver (pca9557.py) and the    *)
(* daemon's command dispatcher, pin table and sensor readout               *)
(* (bratwurst.py), as state machines.                                      *)
(*                                                                         *)
(* Specifications:                                                         *)
(*   Spec        the daemon: driver construction at startup, then command  *)
(*               messages delivered by the broker and handled by           *)
(*               mqtt_on_message                                           *)
(*   DriverSpec  the driver alone, under any caller of its per-pin API     *)
(*   BitSpec     the pure function write_bit on all bytes and bit indices  *)
(*   SensorSpec  read_inas, one whole readout per step                     *)
(*   MainSpec    main(): the polling loop, the stop signal, the clock and  *)
(*               the connection to the broker with mqtt_on_connect         *)
(*   LiveSpec    MainSpec with a main thread that is never stopped         *)
(*   StepSpec    mqtt_on_message line by line, interleaved with the main   *)
(*               thread serialising the pin table                          *)
(*   FaultSpec   the driver with bus writes that may raise                 *)
(***************************************************************************)
EXTENDS Integers, Sequences, FiniteSets

VARIABLES
    phase,      \* "new" before PCA9557.__init__ has run, "running" after
    conf,       \* PCA9557.conf: shadow of the configuration register
    out,        \* PCA9557.out:  shadow of the output port register
    inv,        \* PCA9557.inv:  shadow of the polarity inversion register
    chip,       \* the chip's registers, REG_OUT/REG_INV/REG_DIR -> byte
    buslog,     \* bus.write_byte_data calls <<register, byte>> of the last operation
    pcapins,    \* bratwurst.pcapins: name -> [pin, value, direction, state]
    msg,        \* the command payload in flight to mqtt_on_message, or NoMsg
    errors,     \* logging.error events of the last handled message
    raised,     \* exception that escaped the last handler call, or "none"
    wbArgs,     \* BitSpec: the arguments <<inbyte, bit, value>> of write_bit
    wbRes,      \* BitSpec: write_bit's results once applied
    powerstats, \* the dictionary returned by the last read_inas
    pc,         \* main(): where the main thread stands
    now,        \* what time.time() returns
    lastchecktime, \* main(): lastchecktime
    shutdown,   \* the global flag set by signal_handler
    net,        \* the MQTT client: "off", "connecting" or "up" (is_connected())
    status,     \* the retained message the broker holds on the status topic
    calls,      \* what the last step of the program read, published and wrote
    file,       \* the content of powerstats.json in the runtime directory
    exitcode,   \* the exit code of the process once it has ended
    hpc,        \* StepSpec: the line mqtt_on_message stands at
    cur,        \* StepSpec: the entry being handled and the locals v, d, s
    snapshot    \* StepSpec: the pin table last serialised by the main thread

vars == <<phase, conf, out, inv, chip, buslog, pcapins, msg, errors, raised,
          wbArgs, wbRes, powerstats, pc, now, lastchecktime, shutdown, net,
          status, calls, file, exitcode, hpc, cur, snapshot>>

driverVars == <<phase, conf, out, inv, chip, buslog>>
daemonVars == <<pcapins, msg, errors, raised>>
bitVars == <<wbArgs, wbRes>>
mainVars == <<pc, now, lastchecktime, shutdown, net, status, calls, file, exitcode>>
stepVars == <<hpc, cur, snapshot>>

---------------------------------------------------------------------------
(* Bounds of the model *)

\* how many of the 8 pins the driver's callers address in DriverSpec
NumDrvPins == 2
\* how many of the 8 pin names command messages address in Spec
NumCmdPins == 2
\* the largest number of entries of a command object
MaxEntries == 2
\* how many of the 5 configured INA219 devices read_inas iterates over
InaCount == 3

---------------------------------------------------------------------------
(* pca9557.py: constants of class PCA9557 *)

REG_OUT == 1
REG_INV == 2
REG_DIR == 3
DIR_IN == 1
DIR_OUT == 0

\* 0b11111111, 0b00000000 and 0b11110000 of __init__
AllOnes == 255
AllZero == 0
InvReset == 240

Regs == {REG_OUT, REG_INV, REG_DIR}
Bytes == 0 .. 255

\* Python's None, as a value distinct from every byte, pin level and direction
None == -1

---------------------------------------------------------------------------
(* Python's integer operators used by write_bit, on non-negative integers *)

Pow2(k) ==
    2 ^ k

\* (x >> k) % 2
BitOf(x, k) ==
    (x \div Pow2(k)) % 2

RECURSIVE BitOr(_, _)
\* a | b
BitOr(a, b) ==
    IF a = 0 THEN b
    ELSE IF b = 0 THEN a
    ELSE (IF a % 2 = 1 \/ b % 2 = 1 THEN 1 ELSE 0) + 2 * BitOr(a \div 2, b \div 2)

RECURSIVE BitAndNot(_, _)
\* a & ~m for m >= 0: ~m is -(m+1), whose two's complement has exactly the
\* bits of m cleared, so the result keeps the bits of a that m lacks
BitAndNot(a, m) ==
    IF a = 0 THEN 0
    ELSE (IF a % 2 = 1 /\ m % 2 = 0 THEN 1 ELSE 0) + 2 * BitAndNot(a \div 2, m \div 2)

\* mutant of write_bit: the clear branch masks with (1 << bit) instead of ~(1 << bit)
write_bit_keepsOnlyBit(inbyte, bit, value) ==
    IF value # 0
    THEN BitOr(inbyte, Pow2(bit))
    ELSE inbyte - BitAndNot(inbyte, Pow2(bit))

write_bit(inbyte, bit, value) ==
    IF value # 0
    THEN BitOr(inbyte, Pow2(bit))
    ELSE BitAndNot(inbyte, Pow2(bit))

---------------------------------------------------------------------------
(* pca9557.py: class PCA9557.  A driver state d is the record                *)
(* [conf, out, inv, chip, buslog]; each method maps d to the state after it. *)

DriverState ==
    [conf |-> conf, out |-> out, inv |-> inv, chip |-> chip, buslog |-> buslog]

\* bus.write_byte_data(address, reg, byte): the chip takes the whole byte
write_byte_data(d, reg, byte) ==
    [d EXCEPT !.chip = [d.chip EXCEPT ![reg] = byte],
              !.buslog = Append(d.buslog, <<reg, byte>>)]

\* write_inv(inv); the argument None stands for the call without argument
write_inv(d, arg) ==
    LET byte == IF arg = None THEN d.inv ELSE arg
        sent == write_byte_data(d, REG_INV, byte)
    IN  [sent EXCEPT !.inv = byte]

\* write_direction(direction)
write_direction(d, arg) ==
    LET byte == IF arg = None THEN d.conf ELSE arg
        sent == write_byte_data(d, REG_DIR, byte)
    IN  [sent EXCEPT !.conf = byte]

\* write_output(outputs)
write_output(d, arg) ==
    LET byte == IF arg = None THEN d.out ELSE arg
        sent == write_byte_data(d, REG_OUT, byte)
    IN  [sent EXCEPT !.out = byte]

\* mutant of value: the shadow is rebuilt from zero, losing the other pins' bits
value_forgetsShadow(d, pin, v) ==
    write_output([d EXCEPT !.out = write_bit(0, pin, v)], None)

\* value(pin, value) with a value given: the write path
value(d, pin, v) ==
    write_output([d EXCEPT !.out = write_bit(d.out, pin, v)], None)

\* direction(pin, direction)
direction(d, pin, dir) ==
    write_direction([d EXCEPT !.conf = write_bit(d.conf, pin, dir)], None)

\* invert(pin, inverted)
invert(d, pin, inverted) ==
    write_inv([d EXCEPT !.inv = write_bit(d.inv, pin, inverted)], None)

\* mutant of PCA9557_new: the direction register is written with all outputs
PCA9557_new_allOutputs(d) ==
    LET fresh == [d EXCEPT !.conf = AllOnes, !.out = AllZero, !.inv = InvReset]
    IN  write_direction(write_inv(fresh, AllZero), AllZero)

\* __init__: the shadows take the chip's reset defaults, then polarity and
\* direction are written; the output port register is not written
PCA9557_new(d) ==
    LET fresh == [d EXCEPT !.conf = AllOnes, !.out = AllZero, !.inv = InvReset]
    IN  write_direction(write_inv(fresh, AllZero), AllOnes)

\* the driver variables take the fields of d; the log starts empty at each operation
SetDriver(d) ==
    /\ conf' = d.conf
    /\ out' = d.out
    /\ inv' = d.inv
    /\ chip' = d.chip
    /\ buslog' = d.buslog

Fresh ==
    [DriverState EXCEPT !.buslog = <<>>]

\* register contents the chip may hold before the driver is constructed: the
\* reset defaults of the three registers and one pattern that is none of them
PriorBytes == {AllZero, InvReset, AllOnes, 165}

InitDriver ==
    /\ phase = "new"
    /\ conf = None
    /\ out = None
    /\ inv = None
    /\ chip \in [Regs -> PriorBytes]
    /\ buslog = <<>>

\* pca = pca9557.PCA9557(i2c, address=PCA9557_ADDRESS)
PCA9557_init ==
    /\ phase = "new"
    /\ phase' = "running"
    /\ \E d \in {PCA9557_new(Fresh)} : SetDriver(d)

---------------------------------------------------------------------------
(* DriverSpec: the driver under any caller *)

AllPins == 0 .. 7
Levels == {0, 1}

\* the pins the callers address, spread over the byte
DrvPinOrder == <<0, 7, 3, 4, 1, 6, 2, 5>>
DrvPins == {DrvPinOrder[i] : i \in 1 .. NumDrvPins}

DrvValue(pin, v) ==
    /\ phase = "running"
    /\ \E d \in {value(Fresh, pin, v)} : SetDriver(d)
    /\ UNCHANGED phase

DrvDirection(pin, dir) ==
    /\ phase = "running"
    /\ \E d \in {direction(Fresh, pin, dir)} : SetDriver(d)
    /\ UNCHANGED phase

DrvInvert(pin, inverted) ==
    /\ phase = "running"
    /\ \E d \in {invert(Fresh, pin, inverted)} : SetDriver(d)
    /\ UNCHANGED phase

---------------------------------------------------------------------------
(* bratwurst.py: the pin table *)

\* the keys of pcapins in dictionary order; pcapins[name]["pin"] is the index - 1
PinNames == <<"LED", "IO1", "IO2", "IO3", "IO4", "USB2", "USB1", "EXT">>
PinKeys == {PinNames[i] : i \in 1 .. Len(PinNames)}

PinOf(name) ==
    (CHOOSE i \in 1 .. Len(PinNames) : PinNames[i] = name) - 1

\* the table after the loop "for pin in pcapins" that sets the defaults
InitPins ==
    [name \in PinKeys |->
        [pin |-> PinOf(name), value |-> None, direction |-> None, state |-> "default"]]

---------------------------------------------------------------------------
(* Python's str() and str.lower() on the values json.loads produces.  A    *)
(* string is the sequence of its characters; a JSON value is a record      *)
(* [t, s, n, b]: its type and its string, integer or boolean content.      *)

UpperChars == <<"A", "B", "C", "D", "E", "F", "G", "H", "I", "J", "K", "L", "M", "N", "O", "P", "Q", "R", "S", "T", "U", "V", "W", "X", "Y", "Z">>
LowerChars == <<"a", "b", "c", "d", "e", "f", "g", "h", "i", "j", "k", "l", "m", "n", "o", "p", "q", "r", "s", "t", "u", "v", "w", "x", "y", "z">>
Digits == <<"0", "1", "2", "3", "4", "5", "6", "7", "8", "9">>

LowerChar(c) ==
    IF \E i \in 1 .. Len(UpperChars) : UpperChars[i] = c
    THEN LowerChars[CHOOSE i \in 1 .. Len(UpperChars) : UpperChars[i] = c]
    ELSE c

\* str.lower()
Lower(str) ==
    [i \in 1 .. Len(str) |-> LowerChar(str[i])]

RECURSIVE NatStr(_)
NatStr(n) ==
    IF n < 10 THEN <<Digits[n + 1]>> ELSE NatStr(n \div 10) \o <<Digits[(n % 10) + 1]>>

JStr(chars) == [t |-> "str", s |-> chars, n |-> 0, b |-> FALSE]
JInt(i) == [t |-> "int", s |-> <<>>, n |-> i, b |-> FALSE]
JBool(x) == [t |-> "bool", s |-> <<>>, n |-> 0, b |-> x]
JNull == [t |-> "null", s |-> <<>>, n |-> 0, b |-> FALSE]

\* str(value)
Str(v) ==
    CASE v.t = "str" -> v.s
      [] v.t = "int" -> IF v.n < 0 THEN <<"-">> \o NatStr(0 - v.n) ELSE NatStr(v.n)
      [] v.t = "bool" -> IF v.b THEN <<"T", "r", "u", "e">> ELSE <<"F", "a", "l", "s", "e">>
      [] OTHER -> <<"N", "o", "n", "e">>

---------------------------------------------------------------------------
(* bratwurst.py: mqtt_on_message.  A handler state h is the record          *)
(* [d, pins, errors]: the driver state, the pin table and the error events. *)

\* mutant of OffWords: the list lacks "false"
OffWords_lacksFalse == {<<"0">>, <<"o", "f", "f">>}

\* ["0", "off", "false"]
OffWords == {<<"0">>, <<"o", "f", "f">>, <<"f", "a", "l", "s", "e">>}

\* ["1", "on", "true"]
OnWords == {<<"1">>, <<"o", "n">>, <<"t", "r", "u", "e">>}

\* ["-1", "release", "default"]
ReleaseWords == {<<"-", "1">>, <<"r", "e", "l", "e", "a", "s", "e">>, <<"d", "e", "f", "a", "u", "l", "t">>}

\* the branch "Forcing {key} to off", with the table update that follows it
CmdOff(h, key) ==
    LET pinname == h.pins[key].pin
        d1 == value(h.d, pinname, 0)
        d2 == direction(d1, pinname, DIR_OUT)
    IN  [h EXCEPT !.d = d2,
                  !.pins[key].value = 0,
                  !.pins[key].direction = DIR_OUT,
                  !.pins[key].state = "off"]

\* the branch "Forcing {key} to on"
CmdOn(h, key) ==
    LET pinname == h.pins[key].pin
        d1 == value(h.d, pinname, 1)
        d2 == direction(d1, pinname, DIR_OUT)
    IN  [h EXCEPT !.d = d2,
                  !.pins[key].value = 1,
                  !.pins[key].direction = DIR_OUT,
                  !.pins[key].state = "on"]

\* mutant of CmdRelease: the table takes the new state but keeps the old direction
CmdRelease_keepsDirection(h, key) ==
    LET pinname == h.pins[key].pin
        d1 == direction(h.d, pinname, DIR_IN)
    IN  [h EXCEPT !.d = d1,
                  !.pins[key].state = "default"]

\* the branch "Releasing {key} to default state": v keeps the table's value
CmdRelease(h, key) ==
    LET pinname == h.pins[key].pin
        d1 == direction(h.d, pinname, DIR_IN)
    IN  [h EXCEPT !.d = d1,
                  !.pins[key].direction = DIR_IN,
                  !.pins[key].state = "default"]

\* mutant of CmdInvalid: the entry falls back to the default state
CmdInvalid_resetsState(h, key, word) ==
    [h EXCEPT !.errors = Append(h.errors, [kind |-> "value", key |-> key]),
              !.pins[key].state = "default"]

\* the else branch "Invalid command received": v, d, s are written back as read
CmdInvalid(h, key, word) ==
    [h EXCEPT !.errors = Append(h.errors, [kind |-> "value", key |-> key]),
              !.pins[key].value = h.pins[key].value,
              !.pins[key].direction = h.pins[key].direction,
              !.pins[key].state = h.pins[key].state]

\* mutant of UnknownName: the entry is skipped without a report
UnknownName_silent(h, key) ==
    h

\* "Invalid name received"
UnknownName(h, key) ==
    [h EXCEPT !.errors = Append(h.errors, [kind |-> "name", key |-> key])]

\* one iteration of "for key, value in command.items()"
HandleEntry(h, e) ==
    IF e.key \in DOMAIN h.pins
    THEN LET word == Lower(Str(e.value))
         IN  CASE word \in OffWords -> CmdOff(h, e.key)
               [] word \in OnWords -> CmdOn(h, e.key)
               [] word \in ReleaseWords -> CmdRelease(h, e.key)
               [] OTHER -> CmdInvalid(h, e.key, word)
    ELSE UnknownName(h, e.key)

RECURSIVE HandleItems(_, _)
\* the loop over command.items(), in the order of the object's entries
HandleItems(h, items) ==
    IF items = <<>> THEN h
    ELSE HandleItems(HandleEntry(h, Head(items)), Tail(items))

\* a payload: whether its bytes decode as UTF-8, what json.loads makes of the
\* text ("invalid" when it raises JSONDecodeError, else the type of the
\* document), and the entries of an object in their order
NoMsg == [utf8 |-> TRUE, doc |-> "nomsg", items |-> <<>>]

\* the whole callback on payload m from handler state h: [h, raised]
OnMessage(h, m) ==
    IF ~m.utf8
    \* msg.payload.decode() in the first log line, outside the try
    THEN [h |-> h, raised |-> "UnicodeDecodeError"]
    ELSE IF m.doc = "invalid"
    \* except json.JSONDecodeError
    THEN [h |-> [h EXCEPT !.errors = Append(h.errors, [kind |-> "json", key |-> ""])],
          raised |-> "none"]
    ELSE IF m.doc # "object"
    \* command.items() on a list, number, string, boolean or None
    THEN [h |-> h, raised |-> "AttributeError"]
    ELSE [h |-> HandleItems(h, m.items), raised |-> "none"]

InitDaemon ==
    /\ pcapins = InitPins
    /\ msg = NoMsg
    /\ errors = <<>>
    /\ raised = "none"

\* the network loop calls mqtt_on_message with the payload in flight
mqtt_on_message ==
    /\ msg # NoMsg
    /\ \E r \in {OnMessage([d |-> Fresh, pins |-> pcapins, errors |-> <<>>], msg)} :
           /\ \E d \in {r.h.d} : SetDriver(d)
           /\ pcapins' = r.h.pins
           /\ errors' = r.h.errors
           /\ raised' = r.raised
    /\ msg' = NoMsg
    /\ UNCHANGED phase

---------------------------------------------------------------------------
(* The command payloads the broker delivers *)

CmdPinOrder == <<"IO1", "EXT", "LED", "USB2", "IO3", "IO2", "USB1", "IO4">>
CmdPinNames == {CmdPinOrder[i] : i \in 1 .. NumCmdPins}
UnknownNames == {"NOTAPIN", "io1"}
CmdKeys == CmdPinNames \cup UnknownNames

\* every word of the three lists, other spellings and types of them, and values
\* that are in no list
SingleValues ==
    {JStr(<<"0">>), JStr(<<"o", "f", "f">>), JStr(<<"f", "a", "l", "s", "e">>), JStr(<<"1">>), JStr(<<"o", "n">>), JStr(<<"t", "r", "u", "e">>),
     JStr(<<"-", "1">>), JStr(<<"r", "e", "l", "e", "a", "s", "e">>), JStr(<<"d", "e", "f", "a", "u", "l", "t">>),
     JStr(<<"O", "N">>), JStr(<<"O", "f", "f">>), JStr(<<"R", "e", "l", "e", "a", "s", "e">>), JStr(<<"b", "o", "g", "u", "s">>), JStr(<<>>),
     JInt(0), JInt(1), JInt(0 - 1), JInt(2), JInt(10),
     JBool(TRUE), JBool(FALSE), JNull}

\* the values of objects with several entries
MultiValues ==
    {JStr(<<"o", "n">>), JInt(0), JStr(<<"R", "e", "l", "e", "a", "s", "e">>), JStr(<<"b", "o", "g", "u", "s">>)}

DistinctKeys(items) ==
    \A i, j \in 1 .. Len(items) : i # j => items[i].key # items[j].key

\* objects with several entries name the pins and one unknown name
MultiKeys == CmdPinNames \cup {"NOTAPIN"}

\* json.loads keeps one entry per key
ObjectItems ==
    {<<>>}
    \cup {<<e>> : e \in [key : CmdKeys, value : SingleValues]}
    \cup UNION {{items \in [1 .. n -> [key : MultiKeys, value : MultiValues]] :
                    DistinctKeys(items)} : n \in 2 .. MaxEntries}

NonObjectDocs == {"array", "number", "string", "boolean", "null"}

Payloads ==
    {[utf8 |-> TRUE, doc |-> "object", items |-> items] : items \in ObjectItems}
    \cup {[utf8 |-> TRUE, doc |-> k, items |-> <<>>] : k \in NonObjectDocs}
    \cup {[utf8 |-> u, doc |-> "invalid", items |-> <<>>] : u \in BOOLEAN}

NoEvents ==
    /\ buslog = <<>>
    /\ errors = <<>>
    /\ raised = "none"

\* the broker delivers a message on the command topic
Deliver ==
    /\ phase = "running"
    /\ msg = NoMsg
    /\ NoEvents
    /\ \E m \in Payloads : msg' = m
    /\ UNCHANGED <<phase, conf, out, inv, chip, buslog, pcapins, errors, raised>>

\* the record of the last call's bus writes, error events and exception is
\* dropped before the next message is looked at
ClearEvents ==
    /\ msg = NoMsg
    /\ ~NoEvents
    /\ buslog' = <<>>
    /\ errors' = <<>>
    /\ raised' = "none"
    /\ UNCHANGED <<phase, conf, out, inv, chip, pcapins, msg>>

---------------------------------------------------------------------------
(* BitSpec: write_bit applied to every byte, bit index and value *)

InitBit ==
    /\ wbArgs \in Bytes \X AllPins \X Levels
    /\ wbRes = <<>>

\* write_bit(inbyte, bit, value), then write_bit(write_bit(inbyte, bit, 1), bit, 0)
ApplyWriteBit ==
    /\ wbRes = <<>>
    /\ wbRes' = <<write_bit(wbArgs[1], wbArgs[2], wbArgs[3]),
                  write_bit(write_bit(wbArgs[1], wbArgs[2], 1), wbArgs[2], 0)>>
    /\ UNCHANGED wbArgs

IdleBit ==
    /\ wbArgs = <<0, 0, 0>>
    /\ wbRes = <<>>

---------------------------------------------------------------------------
(* bratwurst.py: read_inas.  The INA219 readings are integers in units fine *)
(* enough for the rounding to act on them: voltage() in mV, current() in    *)
(* 1/100 mA, power() in 1/10 mW, shunt_voltage() in 1/10000 mV.             *)

\* the keys of inaconfig in dictionary order
InaNames == <<"Raspi", "USB1", "USB2", "EXT", "Input">>
Inas == {InaNames[i] : i \in 1 .. InaCount}

\* round(x, ndigits) to the nearest multiple of unit (the readings below are
\* never halfway between two multiples)
Round(x, unit) ==
    ((x + (unit \div 2)) \div unit) * unit

\* what one device returns to the calls of one readout: voltage() is called
\* twice, and the bus voltage may have changed in between
VoltsFirst == {300, 1004, 1500}
VoltsSecond == {300, 1500}
Loads ==
    {[current |-> 0, power |-> 0, shunt |-> 0],
     [current |-> 12342, power |-> 6171, shunt |-> 12338]}
DeviceReads == [v1 : VoltsFirst, v2 : VoltsSecond, load : Loads]

\* 1.0 V, the threshold of "if voltage > 1.0", in mV
OneVolt == 1000

\* the body of the loop of read_inas for one device
ReadIna(r) ==
    IF Round(r.v1, 10) > OneVolt
    THEN [voltage |-> Round(r.v2, 10),
          current |-> Round(r.load.current, 10),
          power |-> Round(r.load.power, 10),
          shunt_voltage |-> Round(r.load.shunt, 10)]
    ELSE [voltage |-> 0, current |-> 0, power |-> 0, shunt_voltage |-> 0]

\* powerstats = read_inas()
read_inas ==
    \E reads \in [Inas -> DeviceReads] :
        powerstats' = [name \in Inas |-> ReadIna(reads[name])]

---------------------------------------------------------------------------
(* bratwurst.py: main, signal_handler, mqtt_on_connect, hass_discovery.    *)
(* The main thread runs the polling loop; the MQTT client's network thread *)
(* runs the callbacks.  Time is counted in whole clock units.              *)

\* the last clock reading the model covers
MaxTime == 7

\* inainterval = float(config["general"]["measurement_interval"]), in clock units
inainterval == 2

\* mutant of Due: any wake later than the previous tick samples
Due_early(last, t) ==
    last < t

\* mutant of Due: a wake must be more than one unit late to sample
Due_late(last, t) ==
    last + inainterval + 1 < t

\* if lastchecktime + inainterval < time.time()
Due(last, t) ==
    last + inainterval < t

\* mutant of LoopContinues: the flag is not looked at
LoopContinues_ignoresFlag(flag) ==
    TRUE

\* while shutdown is False
LoopContinues(flag) ==
    flag = FALSE

\* main() has been entered and the process has not ended
Alive ==
    pc \in {"top", "body", "sleep", "after"}

\* one call on the MQTT client, on a sensor or on the snapshot file
Event(op, topic, retain, body) ==
    [op |-> op, topic |-> topic, retain |-> retain, body |-> body]

NoBody == [text |-> ""]

\* the four descriptors hass_discovery publishes per sensor, in its order
SensorKinds == <<"voltage", "current", "power", "shunt_voltage">>

\* client.publish(hass_discovery_prefix + "select/.../<pinname>/config", ..., retain=True)
PinDescriptor(i) ==
    Event("publish", <<"homeassistant", "select", PinNames[i]>>, TRUE,
          [dev |-> IF i = 1 THEN "deviceconfig" ELSE "deviceconfig_short"])

\* client.publish(hass_discovery_prefix + "sensor/.../<name>_<kind>/config", ..., retain=True)
SensorDescriptor(name, kind) ==
    Event("publish", <<"homeassistant", "sensor", name, kind>>, TRUE,
          [dev |-> "deviceconfig_short"])

\* mutant of hass_discovery: the sensors' descriptors are left out
hass_discovery_pinsOnly ==
    [i \in 1 .. Len(PinNames) |-> PinDescriptor(i)]

\* the publications of hass_discovery: the loop over pcapins.keys(), then the
\* loop over inas.keys()
hass_discovery ==
    [i \in 1 .. Len(PinNames) |-> PinDescriptor(i)]
    \o [j \in 1 .. Len(InaNames) * Len(SensorKinds) |->
           SensorDescriptor(InaNames[((j - 1) \div Len(SensorKinds)) + 1],
                            SensorKinds[((j - 1) % Len(SensorKinds)) + 1])]

\* the calls of mqtt_on_connect on the client
OnConnectCalls ==
    <<Event("subscribe", <<"command">>, FALSE, NoBody),
      Event("publish", <<"status">>, TRUE, [text |-> "online"])>>
    \o hass_discovery

IdleMain ==
    /\ pc = "start"
    /\ now = inainterval + 1
    /\ lastchecktime = 0
    /\ shutdown = FALSE
    /\ net = "off"
    /\ status = "none"
    /\ calls = <<>>
    /\ file = <<>>
    /\ exitcode = None

\* main() up to the loop: the signal handlers, the callbacks and the will are
\* set; with MQTT enabled mqttc.connect() opens the connection, and raises
\* when the broker cannot be reached; lastchecktime = 0
MainStart ==
    /\ pc = "start"
    /\ phase = "running"
    /\ \E mqtt_enabled \in BOOLEAN, reachable \in BOOLEAN :
           IF mqtt_enabled /\ ~reachable
           THEN /\ pc' = "failed"
                /\ exitcode' = 1
                /\ UNCHANGED net
           ELSE /\ pc' = "top"
                /\ net' = (IF mqtt_enabled THEN "connecting" ELSE "off")
                /\ UNCHANGED exitcode
    /\ lastchecktime' = 0
    /\ calls' = <<>>
    /\ UNCHANGED <<now, shutdown, status, file, powerstats>>

\* signal_handler: SIGINT or SIGTERM arrives
signal_handler ==
    /\ pc \in {"start", "top", "body", "sleep", "after"}
    /\ shutdown = FALSE
    /\ shutdown' = TRUE
    /\ UNCHANGED <<pc, now, lastchecktime, net, status, calls, file, exitcode, powerstats>>

\* the clock moves on
Clock ==
    /\ Alive
    /\ now < MaxTime
    /\ now' = now + 1
    /\ UNCHANGED <<pc, lastchecktime, shutdown, net, status, calls, file, exitcode, powerstats>>

\* the broker acknowledges the connection (the first one or one the network
\* loop has re-established) and the network thread calls mqtt_on_connect
mqtt_on_connect ==
    /\ Alive
    /\ net = "connecting"
    /\ net' = "up"
    /\ status' = "online"
    /\ calls' = OnConnectCalls
    /\ UNCHANGED <<pc, now, lastchecktime, shutdown, file, exitcode, powerstats>>

\* the connection breaks: the broker publishes the will set by
\* mqttc.will_set(mqtt_topic + "status", "offline", retain=True), and the
\* network loop starts to reconnect
ConnectionLost ==
    /\ Alive
    /\ net = "up"
    /\ net' = "connecting"
    /\ status' = "offline"
    /\ UNCHANGED <<pc, now, lastchecktime, shutdown, calls, file, exitcode, powerstats>>

\* while shutdown is False
LoopTop ==
    /\ pc = "top"
    /\ pc' = (IF LoopContinues(shutdown) THEN "body" ELSE "after")
    /\ calls' = <<>>
    /\ UNCHANGED <<now, lastchecktime, shutdown, net, status, file, exitcode, powerstats>>

\* what the devices return to the readouts of the polling loop: every rail
\* below the threshold, or every rail powered and loaded
TickReads ==
    {[v1 |-> 300, v2 |-> 300, load |-> [current |-> 0, power |-> 0, shunt |-> 0]],
     [v1 |-> 1500, v2 |-> 1500, load |-> [current |-> 12342, power |-> 6171, shunt |-> 12338]]}

\* the body of "if lastchecktime + inainterval < time.time()": the clock is
\* read a second time (t2) for lastchecktime, the sensors are read, both
\* documents are published when the client is connected and the snapshot
\* file is written when the runtime directory exists
SampleTick ==
    \E t2 \in {now, now + 1} \cap (0 .. MaxTime), r \in TickReads, isdir \in BOOLEAN :
        /\ now' = t2
        /\ lastchecktime' = t2
        /\ powerstats' = [name \in Inas |-> ReadIna(r)]
        /\ calls' = <<Event("read_inas", <<>>, FALSE, NoBody)>>
                    \o (IF net = "up"
                        THEN <<Event("publish", <<"powerstats">>, FALSE, [stats |-> powerstats']),
                               Event("publish", <<"pinstates">>, FALSE, [pins |-> pcapins])>>
                        ELSE <<>>)
                    \o (IF isdir
                        THEN <<Event("write", <<"powerstats.json">>, FALSE, [stats |-> powerstats'])>>
                        ELSE <<>>)
        /\ file' = (IF isdir THEN powerstats' ELSE file)

\* one pass through the loop body up to time.sleep
LoopBody ==
    /\ pc = "body"
    /\ IF Due(lastchecktime, now)
       THEN SampleTick
       ELSE /\ calls' = <<>>
            /\ UNCHANGED <<now, lastchecktime, powerstats, file>>
    /\ pc' = "sleep"
    /\ UNCHANGED <<shutdown, net, status, exitcode>>

\* time.sleep(0.1) returns
LoopSleep ==
    /\ pc = "sleep"
    /\ pc' = "top"
    /\ calls' = <<>>
    /\ UNCHANGED <<now, lastchecktime, shutdown, net, status, file, exitcode, powerstats>>

\* after the loop: mqttc.disconnect() when connected, then exit(0).  The
\* DISCONNECT packet is written by the network thread; when it reaches the
\* broker the will is discarded, when the process ends first the broker sees
\* the connection drop and publishes the will.
LoopExit ==
    /\ pc = "after"
    /\ IF net = "up"
       THEN /\ \E delivered \in BOOLEAN :
                   status' = (IF delivered THEN status ELSE "offline")
            /\ calls' = <<Event("disconnect", <<>>, FALSE, NoBody)>>
       ELSE /\ calls' = <<>>
            /\ UNCHANGED status
    /\ net' = "off"
    /\ pc' = "exited"
    /\ exitcode' = 0
    /\ UNCHANGED <<now, lastchecktime, shutdown, file, powerstats>>

\* the commands the broker delivers while the polling loop runs
MainPayloads ==
    {[utf8 |-> TRUE, doc |-> "object",
      items |-> <<[key |-> "IO1", value |-> JStr(w)]>>] : w \in {<<"o", "n">>, <<"r", "e", "l", "e", "a", "s", "e">>}}

\* a command arrives on the subscription and mqtt_on_message handles it
MainCommand ==
    /\ Alive
    /\ net = "up"
    /\ \E m \in MainPayloads :
           \E r \in {OnMessage([d |-> Fresh, pins |-> pcapins, errors |-> <<>>], m)} :
               /\ \E d \in {r.h.d} : SetDriver(d)
               /\ pcapins' = r.h.pins
               /\ errors' = r.h.errors
               /\ raised' = r.raised
    /\ UNCHANGED <<phase, msg>>

---------------------------------------------------------------------------
(* bratwurst.py: mqtt_on_message line by line for one entry of a command,  *)
(* with the main thread serialising the pin table in between               *)

\* the pins and values of the entries handled line by line
StepPins == {"IO1", "EXT"}
StepValues == {JStr(<<"o", "n">>), JStr(<<"o", "f", "f">>), JStr(<<"r", "e", "l", "e", "a", "s", "e">>), JStr(<<"b", "o", "g", "u", "s">>)}

NoEntry ==
    [key |-> "", word |-> <<>>, v |-> None, d |-> None, s |-> "",
     old |-> [pin |-> None, value |-> None, direction |-> None, state |-> ""]]

IdleStep ==
    /\ hpc = "idle"
    /\ cur = NoEntry
    /\ snapshot = InitPins

\* mutant of Branch: the on and off branches go straight to pca.direction
Branch_skipsValue(word) ==
    IF word \in OffWords \cup OnWords \cup ReleaseWords THEN "direction" ELSE "invalid"

\* the branch of the if/elif chain taken for the lowercased value, by its
\* first statement
Branch(word) ==
    CASE word \in OffWords \cup OnWords -> "value"
      [] word \in ReleaseWords -> "direction"
      [] OTHER -> "invalid"

\* for key, value in command.items(): key in pcapins, value = str(value).lower(),
\* v, d, s read from the table
StepBegin ==
    /\ phase = "running"
    /\ hpc = "idle"
    /\ \E e \in [key : StepPins, value : StepValues] :
           /\ cur' = [key |-> e.key, word |-> Lower(Str(e.value)),
                      v |-> pcapins[e.key].value, d |-> pcapins[e.key].direction,
                      s |-> pcapins[e.key].state, old |-> pcapins[e.key]]
           /\ hpc' = Branch(Lower(Str(e.value)))
    /\ buslog' = <<>>
    /\ errors' = <<>>
    /\ UNCHANGED <<phase, conf, out, inv, chip, pcapins, msg, raised, snapshot>>

\* v = pca.value(pinname, 0) or v = pca.value(pinname, 1)
StepValue ==
    /\ hpc = "value"
    /\ \E level \in {IF cur.word \in OnWords THEN 1 ELSE 0} :
           /\ \E d \in {value(DriverState, cur.old.pin, level)} : SetDriver(d)
           /\ cur' = [cur EXCEPT !.v = level]
    /\ hpc' = "direction"
    /\ UNCHANGED <<phase, pcapins, msg, errors, raised, snapshot>>

\* d = pca.direction(pinname, pca.DIR_OUT) and s = "off" or "on";
\* in the release branch d = pca.direction(pinname, pca.DIR_IN) and s = "default"
StepDirection ==
    /\ hpc = "direction"
    /\ \E dir \in {IF cur.word \in ReleaseWords THEN DIR_IN ELSE DIR_OUT} :
           /\ \E d \in {direction(DriverState, cur.old.pin, dir)} : SetDriver(d)
           /\ cur' = [cur EXCEPT !.d = dir,
                                 !.s = CASE cur.word \in OffWords -> "off"
                                         [] cur.word \in OnWords -> "on"
                                         [] OTHER -> "default"]
    /\ hpc' = "store_value"
    /\ UNCHANGED <<phase, pcapins, msg, errors, raised, snapshot>>

\* else: logging.error(f"Invalid value for {key}: {value}")
StepInvalid ==
    /\ hpc = "invalid"
    /\ errors' = Append(errors, [kind |-> "value", key |-> cur.key])
    /\ hpc' = "store_value"
    /\ UNCHANGED <<phase, conf, out, inv, chip, buslog, pcapins, msg, raised, cur, snapshot>>

\* pcapins[key]["value"] = v
StoreValue ==
    /\ hpc = "store_value"
    /\ pcapins' = [pcapins EXCEPT ![cur.key].value = cur.v]
    /\ hpc' = "store_direction"
    /\ UNCHANGED <<phase, conf, out, inv, chip, buslog, msg, errors, raised, cur, snapshot>>

\* pcapins[key]["direction"] = d
StoreDirection ==
    /\ hpc = "store_direction"
    /\ pcapins' = [pcapins EXCEPT ![cur.key].direction = cur.d]
    /\ hpc' = "store_state"
    /\ UNCHANGED <<phase, conf, out, inv, chip, buslog, msg, errors, raised, cur, snapshot>>

\* pcapins[key]["state"] = s, the last statement for this entry
StoreState ==
    /\ hpc = "store_state"
    /\ pcapins' = [pcapins EXCEPT ![cur.key].state = cur.s]
    /\ hpc' = "idle"
    /\ cur' = NoEntry
    /\ UNCHANGED <<phase, conf, out, inv, chip, buslog, msg, errors, raised, snapshot>>

\* the main thread, in a sampling tick with the client connected:
\* json.dumps(pcapins)
StepPublish ==
    /\ phase = "running"
    /\ snapshot' = pcapins
    /\ UNCHANGED <<phase, conf, out, inv, chip, buslog, pcapins, msg, errors, raised, hpc, cur>>

---------------------------------------------------------------------------
(* pca9557.py: the per-pin operations when bus.write_byte_data raises.  The *)
(* shadow has been assigned before the write method is called; the write   *)
(* method's own assignment of the shadow is not reached.                    *)

\* value(): self.out = write_bit(self.out, pin, value), then write_output raises
value_raises(d, pin, v) ==
    [d EXCEPT !.out = write_bit(d.out, pin, v)]

\* direction(): self.conf = write_bit(self.conf, pin, direction), then
\* write_direction raises
direction_raises(d, pin, dir) ==
    [d EXCEPT !.conf = write_bit(d.conf, pin, dir)]

\* invert(): self.inv = write_bit(self.inv, pin, inverted), then write_inv raises
invert_raises(d, pin, inverted) ==
    [d EXCEPT !.inv = write_bit(d.inv, pin, inverted)]

\* a caller's value() during which the bus write fails with OSError
DrvValueRaises(pin, v) ==
    /\ phase = "running"
    /\ \E d \in {value_raises(Fresh, pin, v)} : SetDriver(d)
    /\ raised' = "OSError"
    /\ UNCHANGED <<phase, pcapins, msg, errors>>

\* a caller's direction() during which the bus write fails with OSError
DrvDirectionRaises(pin, dir) ==
    /\ phase = "running"
    /\ \E d \in {direction_raises(Fresh, pin, dir)} : SetDriver(d)
    /\ raised' = "OSError"
    /\ UNCHANGED <<phase, pcapins, msg, errors>>

\* a caller's invert() during which the bus write fails with OSError
DrvInvertRaises(pin, inverted) ==
    /\ phase = "running"
    /\ \E d \in {invert_raises(Fresh, pin, inverted)} : SetDriver(d)
    /\ raised' = "OSError"
    /\ UNCHANGED <<phase, pcapins, msg, errors>>

---------------------------------------------------------------------------
(* Specifications *)

IdleSensors ==
    powerstats = <<>>

Init ==
    /\ InitDriver
    /\ InitDaemon
    /\ IdleBit
    /\ IdleSensors
    /\ IdleMain
    /\ IdleStep

Startup ==
    /\ PCA9557_init
    /\ UNCHANGED <<daemonVars, bitVars, powerstats, mainVars, stepVars>>

Command ==
    /\ Deliver
    /\ UNCHANGED <<bitVars, powerstats, mainVars, stepVars>>

Dispatch ==
    /\ mqtt_on_message
    /\ UNCHANGED <<bitVars, powerstats, mainVars, stepVars>>

Observe ==
    /\ ClearEvents
    /\ UNCHANGED <<bitVars, powerstats, mainVars, stepVars>>

Next ==
    \/ Startup
    \/ Command
    \/ Dispatch
    \/ Observe

Spec == Init /\ [][Next]_vars

CallValue ==
    /\ \E pin \in DrvPins, v \in Levels : DrvValue(pin, v)
    /\ UNCHANGED <<daemonVars, bitVars, powerstats, mainVars, stepVars>>

CallDirection ==
    /\ \E pin \in DrvPins, dir \in {DIR_IN, DIR_OUT} : DrvDirection(pin, dir)
    /\ UNCHANGED <<daemonVars, bitVars, powerstats, mainVars, stepVars>>

CallInvert ==
    /\ \E pin \in DrvPins, inverted \in Levels : DrvInvert(pin, inverted)
    /\ UNCHANGED <<daemonVars, bitVars, powerstats, mainVars, stepVars>>

DriverNext ==
    \/ Startup
    \/ CallValue
    \/ CallDirection
    \/ CallInvert

DriverSpec == Init /\ [][DriverNext]_vars

BitInit ==
    /\ InitDriver
    /\ chip = [r \in Regs |-> AllZero]
    /\ InitDaemon
    /\ InitBit
    /\ IdleSensors
    /\ IdleMain
    /\ IdleStep

BitNext ==
    /\ ApplyWriteBit
    /\ UNCHANGED <<driverVars, daemonVars, powerstats, mainVars, stepVars>>

BitSpec == BitInit /\ [][BitNext]_vars

SensorInit ==
    /\ InitDriver
    /\ chip = [r \in Regs |-> AllZero]
    /\ InitDaemon
    /\ IdleBit
    /\ IdleSensors
    /\ IdleMain
    /\ IdleStep

SensorNext ==
    /\ read_inas
    /\ UNCHANGED <<driverVars, daemonVars, bitVars, mainVars, stepVars>>

SensorSpec == SensorInit /\ [][SensorNext]_vars

\* the chip after power-on reset
ResetChip ==
    [r \in Regs |-> CASE r = REG_OUT -> AllZero
                      [] r = REG_INV -> InvReset
                      [] r = REG_DIR -> AllOnes]

MainInit ==
    /\ InitDriver
    /\ chip = ResetChip
    /\ InitDaemon
    /\ IdleBit
    /\ IdleSensors
    /\ IdleMain
    /\ IdleStep

\* the main thread: main() from its first line to exit(0)
MainThread ==
    /\ \/ MainStart
       \/ LoopTop
       \/ LoopBody
       \/ LoopSleep
       \/ LoopExit
    /\ UNCHANGED <<driverVars, daemonVars, bitVars, stepVars>>

\* what happens to the process from outside
Environment ==
    /\ \/ signal_handler
       \/ Clock
       \/ ConnectionLost
    /\ UNCHANGED <<driverVars, daemonVars, bitVars, stepVars>>

\* the network thread calls mqtt_on_connect
Connected ==
    /\ mqtt_on_connect
    /\ UNCHANGED <<driverVars, daemonVars, bitVars, stepVars>>

\* the network thread calls mqtt_on_message
Commanded ==
    /\ MainCommand
    /\ UNCHANGED <<bitVars, powerstats, mainVars, stepVars>>

MainNext ==
    \/ Startup
    \/ MainThread
    \/ Environment
    \/ Connected
    \/ Commanded

MainSpec == MainInit /\ [][MainNext]_vars

\* the main thread is never stopped for good: every call it makes returns
LiveSpec == MainInit /\ [][MainNext]_vars /\ WF_vars(MainThread)

StepInit ==
    MainInit

\* the network thread inside mqtt_on_message
HandlerThread ==
    /\ \/ StepBegin
       \/ StepValue
       \/ StepDirection
       \/ StepInvalid
       \/ StoreValue
       \/ StoreDirection
       \/ StoreState
    /\ UNCHANGED <<bitVars, powerstats, mainVars>>

\* the main thread publishing the pin states
Publisher ==
    /\ StepPublish
    /\ UNCHANGED <<bitVars, powerstats, mainVars>>

StepNext ==
    \/ Startup
    \/ HandlerThread
    \/ Publisher

StepSpec == StepInit /\ [][StepNext]_vars

RaiseValue ==
    /\ \E pin \in DrvPins, v \in Levels : DrvValueRaises(pin, v)
    /\ UNCHANGED <<bitVars, powerstats, mainVars, stepVars>>

RaiseDirection ==
    /\ \E pin \in DrvPins, dir \in {DIR_IN, DIR_OUT} : DrvDirectionRaises(pin, dir)
    /\ UNCHANGED <<bitVars, powerstats, mainVars, stepVars>>

RaiseInvert ==
    /\ \E pin \in DrvPins, inverted \in Levels : DrvInvertRaises(pin, inverted)
    /\ UNCHANGED <<bitVars, powerstats, mainVars, stepVars>>

FaultNext ==
    \/ DriverNext
    \/ RaiseValue
    \/ RaiseDirection
    \/ RaiseInvert

FaultSpec == Init /\ [][FaultNext]_vars

---------------------------------------------------------------------------
(* Properties *)

\* a step in which mqtt_on_message handles the payload in flight
Handled ==
    msg # NoMsg /\ msg' = NoMsg

\* a step that handles a JSON object
HandledObject ==
    Handled /\ msg.utf8 /\ msg.doc = "object"

\* the lowercase string form of the value of entry e
WordOf(e) ==
    Lower(Str(e.value))

\* the three synonym sets as the specification lists them
SynOff == {<<"0">>, <<"o", "f", "f">>, <<"f", "a", "l", "s", "e">>}
SynOn == {<<"1">>, <<"o", "n">>, <<"t", "r", "u", "e">>}
SynRelease == {<<"-", "1">>, <<"r", "e", "l", "e", "a", "s", "e">>, <<"d", "e", "f", "a", "u", "l", "t">>}

Recognized(e) ==
    e.key \in {"LED", "IO1", "IO2", "IO3", "IO4", "USB2", "USB1", "EXT"}

ValidWord(e) ==
    WordOf(e) \in SynOff \cup SynOn \cup SynRelease

\* the number of error events of the given kind reported for key
Reported(log, kind, key) ==
    Cardinality({i \in 1 .. Len(log) : log[i] = [kind |-> kind, key |-> key]})

\* byte new is byte old with bit p set to v and every other bit kept
OnlyBitSet(old, new, p, v) ==
    /\ new \in 0 .. 255
    /\ (new \div (2 ^ p)) % 2 = v
    /\ \A k \in (0 .. 7) \ {p} : (new \div (2 ^ k)) % 2 = (old \div (2 ^ k)) % 2

(* C1 as claimed: between command messages, for each of the 8 pins, state    *)
(* "default" implies direction IN, and state "on" / "off" implies direction  *)
(* OUT and value 1 / 0.                                                      *)
C1_PinTableInvariant ==
    \A name \in PinKeys :
        /\ pcapins[name].state = "default" => pcapins[name].direction = 1
        /\ pcapins[name].state = "on" =>
              pcapins[name].direction = 0 /\ pcapins[name].value = 1
        /\ pcapins[name].state = "off" =>
              pcapins[name].direction = 0 /\ pcapins[name].value = 0

(* C1 amended: state "default" implies direction IN or, for a pin no valid   *)
(* command has yet addressed, None (with value None); state "on" / "off"     *)
(* implies direction OUT and value 1 / 0.                                    *)
C1_PinTableInvariantAmended ==
    \A name \in PinKeys :
        /\ pcapins[name].state \in {"default", "on", "off"}
        /\ pcapins[name].state = "default" =>
              \/ pcapins[name].direction = 1
              \/ pcapins[name].direction = None /\ pcapins[name].value = None
        /\ pcapins[name].state = "on" =>
              pcapins[name].direction = 0 /\ pcapins[name].value = 1
        /\ pcapins[name].state = "off" =>
              pcapins[name].direction = 0 /\ pcapins[name].value = 0

\* one pin released after it was on, another on, a third never commanded
C1_Witness ==
    /\ \E name \in PinKeys :
          /\ pcapins[name].state = "default"
          /\ pcapins[name].direction = 1
          /\ pcapins[name].value = 1
    /\ \E name \in PinKeys : pcapins[name].state = "on"
    /\ \E name \in PinKeys : pcapins[name].direction = None

(* C2: each per-pin driver operation value(p, v), direction(p, d),           *)
(* invert(p, i) transmits one byte, to its own register, and that byte and   *)
(* the resulting shadow differ from the previous shadow in at most bit p,    *)
(* which takes the requested value; the other two shadows are unchanged.     *)
C2_PerPinWrite ==
    [][/\ \A p \in DrvPins, v \in Levels :
             DrvValue(p, v) =>
                 /\ OnlyBitSet(out, out', p, v)
                 /\ buslog' = <<<<1, out'>>>>
                 /\ conf' = conf /\ inv' = inv
       /\ \A p \in DrvPins, v \in Levels :
             DrvDirection(p, v) =>
                 /\ OnlyBitSet(conf, conf', p, v)
                 /\ buslog' = <<<<3, conf'>>>>
                 /\ out' = out /\ inv' = inv
       /\ \A p \in DrvPins, v \in Levels :
             DrvInvert(p, v) =>
                 /\ OnlyBitSet(inv, inv', p, v)
                 /\ buslog' = <<<<2, inv'>>>>
                 /\ out' = out /\ conf' = conf]_vars

\* an output write for pin 0 that carries the bit of pin 7 along
C2_Witness ==
    /\ phase = "running"
    /\ buslog = <<<<1, 129>>>>
    /\ out = 129

(* C3 as claimed: once the driver is constructed, each shadow register       *)
(* equals the chip's register, whatever the chip held before construction.   *)
C3_ShadowEqualsChip ==
    phase = "running" =>
        /\ conf = chip[3]
        /\ out = chip[1]
        /\ inv = chip[2]

(* C4: the step that constructs the driver leaves the direction register at  *)
(* 0xFF and the polarity register at 0x00, in the shadow and on the chip,    *)
(* for any prior chip contents.                                              *)
C4_InitRegisters ==
    [][PCA9557_init =>
          /\ conf' = 255 /\ chip'[3] = 255
          /\ inv' = 0 /\ chip'[2] = 0]_vars

\* just constructed, on a chip that was not in its reset state
C4_Witness ==
    /\ phase = "running"
    /\ buslog = <<<<2, 0>>, <<3, 255>>>>
    /\ chip[1] = 165

(* C5: for all b in 0..255, k in 0..7 and v in {0, 1}, write_bit(b, k, v)    *)
(* is a byte with bit k equal to v and the other bits those of b, and        *)
(* write_bit(write_bit(b, k, 1), k, 0) = b & ~(1 << k).                      *)
C5_WriteBit ==
    wbRes # <<>> =>
        /\ OnlyBitSet(wbArgs[1], wbRes[1], wbArgs[2], wbArgs[3])
        /\ OnlyBitSet(wbArgs[1], wbRes[2], wbArgs[2], 0)
        /\ wbRes[2] = wbArgs[1] - ((wbArgs[1] \div (2 ^ wbArgs[2])) % 2) * (2 ^ wbArgs[2])

\* bit 7 of 0xFF cleared
C5_Witness ==
    /\ wbArgs = <<255, 7, 0>>
    /\ wbRes = <<127, 127>>

(* C6: handling a command object leaves the table entry of every recognized  *)
(* pin name whose value's lowercase string form is in a synonym set as:      *)
(* off-set -> direction OUT, value 0, state "off"; on-set -> direction OUT,  *)
(* value 1, state "on"; release-set -> direction IN, state "default", value  *)
(* unchanged; the entries of the pins the object does not name are           *)
(* untouched.                                                                *)
C6_ValidCommand ==
    [][HandledObject =>
          /\ \A i \in 1 .. Len(msg.items) :
                LET e == msg.items[i]
                    old == pcapins[e.key]
                    new == pcapins'[e.key]
                IN  Recognized(e) =>
                        /\ WordOf(e) \in SynOff =>
                              new = [old EXCEPT !.value = 0, !.direction = 0, !.state = "off"]
                        /\ WordOf(e) \in SynOn =>
                              new = [old EXCEPT !.value = 1, !.direction = 0, !.state = "on"]
                        /\ WordOf(e) \in SynRelease =>
                              new = [old EXCEPT !.direction = 1, !.state = "default"]
          /\ \A name \in PinKeys :
                (\A i \in 1 .. Len(msg.items) : msg.items[i].key # name) =>
                    pcapins'[name] = pcapins[name]]_vars

\* a release just handled (one direction write) on a pin that keeps value 1
C6_Witness ==
    /\ msg = NoMsg
    /\ Len(buslog) = 1 /\ buslog[1][1] = 3
    /\ errors = <<>>
    /\ \E name \in PinKeys :
          pcapins[name] = [pin |-> PinOf(name), value |-> 1, direction |-> 1, state |-> "default"]

(* C7: an entry naming a recognized pin with a value outside the three       *)
(* synonym sets leaves that pin's entry unchanged and produces exactly one   *)
(* invalid-value event; when the object holds no valid entry no register     *)
(* write is issued and no chip or shadow register changes.                   *)
C7_InvalidValue ==
    [][HandledObject =>
          /\ \A i \in 1 .. Len(msg.items) :
                LET e == msg.items[i]
                IN  (Recognized(e) /\ ~ValidWord(e)) =>
                        /\ pcapins'[e.key] = pcapins[e.key]
                        /\ Reported(errors', "value", e.key) = 1
          /\ (\A i \in 1 .. Len(msg.items) :
                  ~(Recognized(msg.items[i]) /\ ValidWord(msg.items[i]))) =>
                /\ buslog' = <<>>
                /\ chip' = chip
                /\ <<conf', out', inv'>> = <<conf, out, inv>>]_vars

\* an invalid value just reported for a pin that is on, and nothing written
C7_Witness ==
    /\ msg = NoMsg
    /\ buslog = <<>>
    /\ \E name \in PinKeys :
          /\ errors = <<[kind |-> "value", key |-> name]>>
          /\ pcapins[name].state = "on"

(* C8: an entry whose key is no recognized pin name produces exactly one     *)
(* unknown-name event and changes nothing; the table, the registers and the  *)
(* bus writes after the message are those of the same message without its    *)
(* unknown-name entries.                                                     *)
C8_UnknownName ==
    [][HandledObject =>
          LET known == SelectSeq(msg.items, Recognized)
              alone == HandleItems([d |-> Fresh, pins |-> pcapins, errors |-> <<>>], known)
          IN  /\ \A i \in 1 .. Len(msg.items) :
                    ~Recognized(msg.items[i]) =>
                        Reported(errors', "name", msg.items[i].key) = 1
              /\ pcapins' = alone.pins
              /\ buslog' = alone.d.buslog
              /\ chip' = alone.d.chip
              /\ <<conf', out', inv'>> = <<alone.d.conf, alone.d.out, alone.d.inv>>
              /\ known = <<>> => /\ pcapins' = pcapins
                                 /\ buslog' = <<>>
                                 /\ chip' = chip]_vars

\* an unknown name reported and, in the same message, a pin switched on
C8_Witness ==
    /\ msg = NoMsg
    /\ \E i \in 1 .. Len(errors) : errors[i] = [kind |-> "name", key |-> "NOTAPIN"]
    /\ Len(buslog) = 2
    /\ \E name \in PinKeys : pcapins[name].state = "on" /\ buslog[1] = <<1, out>>

(* C9 as claimed: for every payload that is not valid JSON the handler       *)
(* returns normally, issues no register write and changes no table entry.    *)
C9_InvalidJsonDiscarded ==
    [][(Handled /\ msg.doc = "invalid") =>
          /\ raised' = "none"
          /\ buslog' = <<>>
          /\ pcapins' = pcapins]_vars

(* C10 as claimed: every reading in the dictionary read_inas returns whose   *)
(* voltage is <= 1.0 V has all four fields zero.                             *)
C10_LowVoltageAllZero ==
    \A name \in DOMAIN powerstats :
        powerstats[name].voltage <= 1000 =>
            /\ powerstats[name].voltage = 0
            /\ powerstats[name].current = 0
            /\ powerstats[name].power = 0
            /\ powerstats[name].shunt_voltage = 0

\* a wake: the main thread passes through the loop body once
Wake ==
    pc = "body" /\ pc' = "sleep"

\* the calls of kind op among a step's calls
CallsOf(log, op) ==
    {i \in 1 .. Len(log) : log[i].op = op}

\* the publications on a topic among a step's calls
PublishedOn(log, topic) ==
    {i \in 1 .. Len(log) : log[i].op = "publish" /\ log[i].topic = topic}

\* a wake that performs a sampling tick: it reads the sensors
Ticked ==
    Wake /\ CallsOf(calls', "read_inas") # {}

(* C11: a wake less than the sampling interval after the previous tick      *)
(* reads no sensor, publishes nothing and writes no snapshot; so any two     *)
(* sampling ticks are at least one interval apart.                           *)
C11_NoEarlyTick ==
    [][/\ (Wake /\ now < lastchecktime + inainterval) =>
              /\ calls' = <<>>
              /\ powerstats' = powerstats
              /\ file' = file
              /\ lastchecktime' = lastchecktime
       /\ Ticked => lastchecktime' >= lastchecktime + inainterval]_vars

\* the loop sleeps after a wake that came one unit after the second tick or a
\* later one and did nothing
C11_Witness ==
    /\ pc = "sleep"
    /\ calls = <<>>
    /\ lastchecktime >= 2 * inainterval + 2
    /\ now = lastchecktime + 1
    /\ powerstats # <<>>

(* C12 as claimed: on every wake at which now >= lastSampleTime +            *)
(* samplingInterval, equality included, a tick is performed: lastSampleTime  *)
(* is set to now and all sensors are read.                                   *)
C12_TickWhenDue ==
    [][(Wake /\ now >= lastchecktime + inainterval) =>
          /\ lastchecktime' = now
          /\ CallsOf(calls', "read_inas") # {}
          /\ DOMAIN powerstats' = Inas]_vars

(* C12 amended: on every wake at which now > lastSampleTime +                *)
(* samplingInterval a tick is performed: lastSampleTime is set to the clock  *)
(* reading taken at the tick, which is not before now, and all sensors are   *)
(* read; at now = lastSampleTime + samplingInterval no tick is performed.    *)
C12_TickWhenOverdue ==
    [][/\ (Wake /\ now > lastchecktime + inainterval) =>
              /\ lastchecktime' = now'
              /\ now' >= now
              /\ Cardinality(CallsOf(calls', "read_inas")) = 1
              /\ DOMAIN powerstats' = Inas
       /\ (Wake /\ now = lastchecktime + inainterval) =>
              /\ calls' = <<>>
              /\ lastchecktime' = lastchecktime]_vars

\* a tick other than the first has just been performed
C12_Witness ==
    /\ pc = "sleep"
    /\ CallsOf(calls, "read_inas") # {}
    /\ lastchecktime = now
    /\ lastchecktime >= 2 * inainterval + 2

(* C13 as claimed: after a clean shutdown while connected the retained       *)
(* status is not "online": the "offline" marker has been delivered on the    *)
(* status topic before the process exited.                                   *)
C13_OfflineAfterExit ==
    pc = "exited" => status # "online"

(* C14: with the shutdown flag set the loop starts no pass through its body  *)
(* at its next wake but leaves; the signal itself does not move the main     *)
(* thread, so a tick in progress is completed; outside the loop no tick is   *)
(* performed; and the process eventually exits with code 0.                  *)
C14_Shutdown ==
    /\ [][/\ (shutdown /\ pc = "top" /\ pc' # pc) => pc' = "after"
          /\ (~shutdown /\ shutdown') => (pc' = pc /\ calls' = calls)
          /\ pc \in {"after", "exited"} =>
                 (lastchecktime' = lastchecktime /\ CallsOf(calls', "read_inas") = {})]_vars
    /\ (shutdown /\ Alive) ~> (pc = "exited" /\ exitcode = 0)

\* the process has exited with code 0 on a stop signal, after at least one tick
C14_Witness ==
    /\ pc = "exited"
    /\ shutdown
    /\ exitcode = 0
    /\ lastchecktime > 0

\* the network thread has just run mqtt_on_connect
JustConnected ==
    net = "connecting" /\ net' = "up"

(* C15: every connection or reconnection subscribes to the command topic,    *)
(* publishes retained "online" on the status topic and re-emits every        *)
(* discovery descriptor, one per pin and four per sensor, all retained; it   *)
(* changes neither the pin table, nor a shadow or chip register, nor         *)
(* lastchecktime.                                                            *)
C15_OnConnect ==
    [][JustConnected =>
          /\ Len(calls') = 2 + 8 + 4 * 5
          /\ calls'[1].op = "subscribe" /\ calls'[1].topic = <<"command">>
          /\ calls'[2].op = "publish" /\ calls'[2].topic = <<"status">>
          /\ calls'[2].retain /\ calls'[2].body.text = "online"
          /\ status' = "online"
          /\ \A i \in 3 .. Len(calls') : calls'[i].op = "publish" /\ calls'[i].retain
          /\ \A name \in PinKeys :
                 Cardinality(PublishedOn(calls', <<"homeassistant", "select", name>>)) = 1
          /\ \A j \in 1 .. 5 :
                 Cardinality({i \in 1 .. Len(calls') :
                                 /\ Len(calls'[i].topic) = 4
                                 /\ calls'[i].topic[2] = "sensor"
                                 /\ calls'[i].topic[3] = InaNames[j]}) = 4
          /\ pcapins' = pcapins
          /\ <<conf', out', inv', chip'>> = <<conf, out, inv, chip>>
          /\ lastchecktime' = lastchecktime]_vars

\* a reconnection after a tick, with pin IO1 switched on by a command
C15_Witness ==
    /\ net = "up"
    /\ Len(calls) = 30
    /\ calls[1].op = "subscribe"
    /\ pcapins["IO1"].state = "on"
    /\ lastchecktime > 0

(* C16 as claimed: whatever the connectivity, a broker unreachable from      *)
(* startup included, the process keeps sampling, and writes the snapshot     *)
(* file when the runtime directory exists; at a tick the two documents are   *)
(* published if and only if the client is connected, and a connection event  *)
(* publishes neither of them afterwards.                                     *)
C16_SamplesRegardless ==
    [][/\ pc' # "failed"
       /\ Ticked =>
              /\ (net = "up") <=> (/\ PublishedOn(calls', <<"powerstats">>) # {}
                                   /\ PublishedOn(calls', <<"pinstates">>) # {})
              /\ (net # "up") => CallsOf(calls', "publish") = {}
              /\ CallsOf(calls', "write") # {} => file' = powerstats'
       /\ JustConnected =>
              /\ PublishedOn(calls', <<"powerstats">>) = {}
              /\ PublishedOn(calls', <<"pinstates">>) = {}]_vars

\* the writes to register reg among the bus writes of the handler call
WritesTo(reg) ==
    {i \in 1 .. Len(buslog) : buslog[i][1] = reg}

(* C17: handling one valid entry issues, for on and off, exactly one write   *)
(* to the output register followed by exactly one write to the direction     *)
(* register, the level being on the chip before the pin becomes an output,   *)
(* and for release exactly one direction write and no output write; the      *)
(* pin's table entry is still the old one until these writes are done.       *)
C17_WriteOrder ==
    LET p == cur.old.pin
        level == IF cur.word \in SynOn THEN 1 ELSE 0
        switched == cur.word \in SynOn \cup SynOff
        released == cur.word \in SynRelease
    IN  /\ hpc \in {"value", "direction", "invalid", "store_value"} =>
               pcapins[cur.key] = cur.old
        /\ hpc = "value" => (switched /\ buslog = <<>>)
        /\ (hpc = "direction" /\ switched) =>
               /\ Len(buslog) = 1
               /\ buslog[1][1] = REG_OUT
               /\ (chip[REG_OUT] \div (2 ^ p)) % 2 = level
        /\ (hpc = "direction" /\ ~switched) => (released /\ buslog = <<>>)
        /\ (hpc \in {"store_value", "store_direction", "store_state"} /\ switched) =>
               /\ Len(buslog) = 2
               /\ buslog[1][1] = REG_OUT
               /\ buslog[2][1] = REG_DIR
               /\ (chip[REG_OUT] \div (2 ^ p)) % 2 = level
               /\ (chip[REG_DIR] \div (2 ^ p)) % 2 = DIR_OUT
        /\ (hpc \in {"store_value", "store_direction", "store_state"} /\ released) =>
               /\ Len(buslog) = 1
               /\ buslog[1][1] = REG_DIR
               /\ (chip[REG_DIR] \div (2 ^ p)) % 2 = DIR_IN

\* "off" for a pin that was on: both writes are done, the table entry is
\* still the old one
C17_Witness ==
    /\ hpc = "store_value"
    /\ cur.word = <<"o", "f", "f">>
    /\ cur.old.state = "on"
    /\ Len(buslog) = 2
    /\ pcapins[cur.key] = cur.old

(* C18 as claimed: under every interleaving of the dispatcher and the        *)
(* polling loop, every serialised pin table holds for each pin a (value,     *)
(* direction, state) triple that was the pin's whole entry before or after   *)
(* a command, never a mix of the two.                                        *)
C18_NoTornEntry ==
    [][(snapshot' # snapshot /\ hpc # "idle") =>
          snapshot'[cur.key] \in
              {cur.old,
               [cur.old EXCEPT !.value = cur.v, !.direction = cur.d, !.state = cur.s]}]_vars

(* C19 as claimed: a payload that is valid JSON but not an object is         *)
(* reported and discarded like a parse failure: the handler returns without  *)
(* raising and changes no state.                                             *)
C19_NonObjectDiscarded ==
    [][(Handled /\ msg.utf8 /\ msg.doc \in NonObjectDocs) =>
          /\ raised' = "none"
          /\ Reported(errors', "json", "") = 1
          /\ buslog' = <<>>
          /\ pcapins' = pcapins
          /\ <<conf', out', inv', chip'>> = <<conf, out, inv, chip>>]_vars

\* a per-pin operation whose bus write raised
BusWriteFailed ==
    phase = "running" /\ raised' = "OSError" /\ buslog' = <<>>

(* C20 as claimed: when the bus write fails during value, direction or       *)
(* invert, the shadow register keeps the value it had before the call, and   *)
(* the chip register too.                                                    *)
C20_ShadowKeptOnFailure ==
    [][BusWriteFailed =>
          /\ <<conf', out', inv'>> = <<conf, out, inv>>
          /\ chip' = chip]_vars

====
